---- MODULE Spec2Model ----
(***************************************************************************)
(* Model of the Ozon parser (eduard256/ozon-mcp).  The repository holds    *)
(* two builds of the same program, both `package main`:                    *)
(*   - src/main.go            the plain build      (variant "main")        *)
(*   - src/unnamed/part_000   the stealth build    (variant "stealth")     *)
(* The model carries the build as the variable `variant`, fixed in Init,   *)
(* and each action follows the code of the build it runs.                  *)
(*                                                                         *)
(* Strings are sequences of runes; a rune is a one-element token.  Runes   *)
(* outside ASCII are written by code point ("U+20BD" is the rouble sign)   *)
(* and keep their UTF-8 width, because Go's len() counts bytes.            *)
(* A page's HTML is abstracted to the set of block-marker phrases it       *)
(* contains, which is all strings.Contains(html, marker) reads from it.    *)
(***************************************************************************)
EXTENDS Integers, Sequences, FiniteSets, TLC

\* ------------------------------------------------------------------ bounds
MaxElems == 3
MaxCount == 2
MaxCloseCalls == 2

\* ----------------------------------------------------------------- strings
Empty == << >>
RUB == "U+20BD"
Cyrillic == {"U+0427", "U+0430", "U+0439", "U+043D", "U+0438", "U+043A"}
NL == "\n"
SP == " "

\* Go's len(string): the number of UTF-8 bytes.
Utf8Width(r) == IF r = RUB THEN 3 ELSE IF r \in Cyrillic THEN 2 ELSE 1

RECURSIVE ByteLen(_)
ByteLen(s) == IF s = Empty THEN 0 ELSE Utf8Width(Head(s)) + ByteLen(Tail(s))

HasPrefix(s, p) == Len(s) >= Len(p) /\ SubSeq(s, 1, Len(p)) = p

\* strings.Index, 1-based; 0 when sub does not occur.
Index(s, sub) ==
  LET hits == {i \in 1..(Len(s) - Len(sub) + 1) : SubSeq(s, i, i + Len(sub) - 1) = sub}
  IN IF hits = {} THEN 0 ELSE CHOOSE i \in hits : \A j \in hits : i <= j

Contains(s, sub) == Index(s, sub) # 0

\* strings.Split with a non-empty separator.
RECURSIVE Split(_, _)
Split(s, sep) ==
  LET i == Index(s, sep)
  IN IF i = 0 THEN <<s>>
     ELSE <<SubSeq(s, 1, i - 1)>> \o Split(SubSeq(s, i + Len(sep), Len(s)), sep)

IsSpace(r) == r \in {SP, NL, "\t", "\r"}

RECURSIVE TrimLeft(_)
TrimLeft(s) == IF s # Empty /\ IsSpace(Head(s)) THEN TrimLeft(Tail(s)) ELSE s

RECURSIVE TrimRight(_)
TrimRight(s) ==
  IF s # Empty /\ IsSpace(s[Len(s)]) THEN TrimRight(SubSeq(s, 1, Len(s) - 1)) ELSE s

TrimSpace(s) == TrimRight(TrimLeft(s))

\* --------------------------------------------------------------- constants
Host == <<"h","t","t","p","s",":","/","/","w","w","w",".","o","z","o","n",".","r","u">>
HttpPrefix == <<"h","t","t","p">>
ProductMarker == <<"/","p","r","o","d","u","c","t","/">>
Currency == <<RUB>>

\* Block-marker phrases looked for in the HTML.
Restricted == "Dostup ogranichen"
AntibotUpper == "Antibot"
AntibotLower == "antibot"
Markers == {Restricted, AntibotUpper, AntibotLower}
Contents == SUBSET Markers

\* An attribute or an element that is not there (rod returns nil / an error).
None == <<"nil">>

\* ------------------------------------------------------------------ types
\* type Product struct: every field a string, "" when not set.
NewProduct ==
  [Name |-> Empty, Price |-> Empty, OldPrice |-> Empty, Link |-> Empty,
   Image |-> Empty, Rating |-> Empty, Reviews |-> Empty, Delivery |-> Empty]

\* ------------------------------------------------------------ DOM fixtures
\* A matched element, as the rod calls of the extraction loop see it:
\*   href      elem.Attribute("href")                       (None: nil)
\*   inner     href of elem.Element("a[href*='/product/']") (None: no such)
\*   text      elem.Text()
\*   nameSel   text of each name selector's element, in cascade order
\*   priceSel  text of each price selector's element, in cascade order
\*   img       src of elem.Element("img")
\*   rating    text of the rating element
TextHeadphones ==
  <<"W","i","r","e","l","e","s","s",SP,"H","e","a","d","p","h","o","n","e","s",SP,"X","L",
    NL,"2",SP,"9","9","0",SP,RUB>>
TextKettle ==
  <<SP,"U+0427","U+0430","U+0439","U+043D","U+0438","U+043A",NL,NL,SP,"9","9",SP,RUB,SP>>
TextShort == <<"N","e","w",NL,"-","5","%">>

ElemA ==
  [href |-> ProductMarker \o <<"p","1","?","x">>, inner |-> None,
   text |-> TextHeadphones,
   nameSel |-> <<None, None, None>>, priceSel |-> <<None, None, None>>,
   img |-> <<"a",".","j","p","g">>, rating |-> None]
ElemA2 ==
  [href |-> Host \o ProductMarker \o <<"p","1","/","r","?","y">>, inner |-> None,
   text |-> TextShort,
   nameSel |-> <<None, Empty, <<SP,"P","h","o","n","e","s",SP>>>>,
   priceSel |-> <<<<"7",SP,RUB>>, None, None>>,
   img |-> None, rating |-> <<"4",".","8">>]
ElemC ==
  [href |-> None, inner |-> ProductMarker \o <<"p","2">>,
   text |-> TextShort,
   nameSel |-> <<None, None, None>>, priceSel |-> <<None, None, None>>,
   img |-> None, rating |-> None]
ElemD ==
  [href |-> ProductMarker \o <<"p","2">>, inner |-> None,
   text |-> TextKettle,
   nameSel |-> <<<<"K","e","t","t","l","e">>, None, None>>,
   priceSel |-> <<None, None, None>>,
   img |-> None, rating |-> None]
\* The fixtures by name; a page lists its elements by these names.
ElemNames == {"A", "A2", "C", "D"}
Elem ==
  [n \in ElemNames |->
     IF n = "A" THEN ElemA ELSE IF n = "A2" THEN ElemA2 ELSE IF n = "C" THEN ElemC ELSE ElemD]

RECURSIVE SeqsUpTo(_, _)
SeqsUpTo(S, n) ==
  IF n = 0 THEN {Empty}
  ELSE LET shorter == SeqsUpTo(S, n - 1)
       IN shorter \cup {Append(q, x) : q \in {r \in shorter : Len(r) = n - 1}, x \in S}

\* What page.Elements(selector) can return: the matched elements in DOM order.
Pages == SeqsUpTo(ElemNames, MaxElems)

\* ------------------------------------------------------ listing extraction
\* Relative links get the scheme and host.
ResolveLink(href) == IF HasPrefix(href, HttpPrefix) THEN href ELSE Host \o href

\* The deduplication key: parts[1] of the split at the product marker, cut at
\* the first "?" and then at the first "/".
ProductPath(link) ==
  LET parts == Split(link, ProductMarker)
  IN Split(Split(parts[2], <<"?">>)[1], <<"/">>)[1]

\* for _, line := range lines: the first qualifying line sets the field.
RECURSIVE ScanLines(_, _)
ScanLines(lines, p) ==
  IF lines = Empty THEN p
  ELSE LET line == TrimSpace(Head(lines))
           p1 == IF ByteLen(line) > 10 /\ ~Contains(line, Currency) /\ p.Name = Empty
                 THEN [p EXCEPT !.Name = line] ELSE p
           p2 == IF Contains(line, Currency) /\ p1.Price = Empty
                 THEN [p1 EXCEPT !.Price = line] ELSE p1
       IN ScanLines(Tail(lines), p2)

TextFields(text, p) == ScanLines(Split(TrimSpace(text), <<NL>>), p)

WithImage(e, p) == IF e.img # None THEN [p EXCEPT !.Image = e.img] ELSE p

\* if count >= maxProducts { break }
BudgetReachedOffByOne(count, maxProducts) == count > maxProducts
BudgetReached(count, maxProducts) == count >= maxProducts

\* One iteration of the stealth loop up to the duplicate check: whether the
\* element has a product link, and then its link and its deduplication key.
StealthLink(e) ==
  IF e.href = None THEN [ok |-> FALSE]
  ELSE
    LET link == ResolveLink(e.href)
    IN IF ~Contains(link, ProductMarker) THEN [ok |-> FALSE]
       ELSE IF Len(Split(link, ProductMarker)) < 2 THEN [ok |-> FALSE]
       ELSE [ok |-> TRUE, link |-> link, productPath |-> ProductPath(link)]

\* The rest of the iteration: the Product of an element that is not a duplicate.
StealthProduct(e, link) ==
  WithImage(e, TextFields(e.text, [NewProduct EXCEPT !.Link = link]))

\* The element-level results for each fixture, computed once.
StealthLinkOf == [n \in ElemNames |-> StealthLink(Elem[n])] @@ << >>
StealthProductOf ==
  [n \in ElemNames |->
     IF StealthLinkOf[n].ok THEN StealthProduct(Elem[n], StealthLinkOf[n].link)
     ELSE NewProduct] @@ << >>

\* if seen[productPath] { continue }
IsDuplicate(seen, productPath) == productPath \in seen

\* The loop of the stealth build over the matched elements, from element i on.
RECURSIVE StealthLoop(_, _, _, _, _, _)
StealthLoop(elems, i, maxProducts, seen, count, products) ==
  IF i > Len(elems) \/ BudgetReached(count, maxProducts) THEN products
  ELSE
    LET c == StealthLinkOf[elems[i]]
        skip == StealthLoop(elems, i + 1, maxProducts, seen, count, products)
    IN IF ~c.ok THEN skip
       ELSE IF IsDuplicate(seen, c.productPath) THEN skip
       ELSE
         LET product == StealthProductOf[elems[i]]
             seen1 == seen \cup {c.productPath}
         IN IF product.Name # Empty \/ product.Link # Empty
            THEN StealthLoop(elems, i + 1, maxProducts, seen1, count + 1,
                             Append(products, product))
            ELSE StealthLoop(elems, i + 1, maxProducts, seen1, count, products)

\* A selector cascade of the plain build: the first selector whose element
\* exists with a non-empty text gives the field, trimmed.
RECURSIVE Cascade(_)
Cascade(texts) ==
  IF texts = Empty THEN Empty
  ELSE IF Head(texts) # None /\ Head(texts) # Empty THEN TrimSpace(Head(texts))
  ELSE Cascade(Tail(texts))

\* The link of an element in the plain build: its own href, else the href of
\* a product link under it.
MainLink(e) ==
  IF e.href # None THEN ResolveLink(e.href)
  ELSE IF e.inner # None THEN Host \o e.inner
  ELSE Empty

MainProduct(e) ==
  LET p0 == [NewProduct EXCEPT !.Link = MainLink(e),
                                !.Name = Cascade(e.nameSel),
                                !.Price = Cascade(e.priceSel)]
      p1 == WithImage(e, p0)
  IN IF e.rating # None THEN [p1 EXCEPT !.Rating = TrimSpace(e.rating)] ELSE p1

MainProductOf == [n \in ElemNames |-> MainProduct(Elem[n])] @@ << >>

\* The loop of the plain build over the matched elements, from element i on.
RECURSIVE MainLoop(_, _, _, _, _)
MainLoop(elems, i, maxProducts, count, products) ==
  IF i > Len(elems) \/ BudgetReached(count, maxProducts) THEN products
  ELSE
    LET product == MainProductOf[elems[i]]
    IN IF product.Link = Empty \/ ~Contains(product.Link, ProductMarker)
       THEN MainLoop(elems, i + 1, maxProducts, count, products)
       ELSE IF product.Name # Empty \/ product.Price # Empty
       THEN MainLoop(elems, i + 1, maxProducts, count + 1, Append(products, product))
       ELSE MainLoop(elems, i + 1, maxProducts, count, products)

ExtractProducts(v, elems, maxProducts) ==
  IF v = "stealth" THEN StealthLoop(elems, 1, maxProducts, {}, 0, Empty)
  ELSE MainLoop(elems, 1, maxProducts, 0, Empty)

\* ------------------------------------------------------- detail extraction
SelTitle == "h1"
SelPriceSpanWidget == "span[data-widget='webPrice'] span"
SelPriceDivWidget == "div[data-widget='webPrice'] span"
SelPriceNumber == "span.price-number"
SelPriceClass == "span[class*='price']"
SelGalleryImg == "div[data-widget='webGallery'] img"
SelReviewRating == "div[data-widget='webReviewRating']"
SelReviewScore == "div[data-widget='webReviewProductScore']"
DetailSelectors ==
  {SelTitle, SelPriceSpanWidget, SelPriceDivWidget, SelPriceNumber, SelPriceClass,
   SelGalleryImg, SelReviewRating, SelReviewScore}

\* A product page as page.Element(selector) sees it: the text (for the image,
\* the src) of the first element each selector matches, None when none does.
DomBare == [sel \in DetailSelectors |-> None]
DomFull ==
  [sel \in DetailSelectors |->
     IF sel = SelTitle THEN <<SP,"P","h","o","n","e",NL>>
     ELSE IF sel = SelPriceDivWidget THEN <<"9","9",SP,RUB>>
     ELSE IF sel = SelGalleryImg THEN <<"g",".","p","n","g">>
     ELSE IF sel \in {SelReviewRating, SelReviewScore} THEN <<"4",".","9">>
     ELSE None]
DomNoCurrency ==
  [sel \in DetailSelectors |->
     IF sel = SelPriceDivWidget THEN <<"s","a","l","e">>
     ELSE IF sel = SelPriceSpanWidget THEN Empty
     ELSE IF sel = SelPriceClass THEN <<"5",SP,RUB,SP>>
     ELSE None]
DetailDoms == {DomBare, DomFull, DomNoCurrency}

Urls == {Host \o ProductMarker \o <<"p","1">>, Host \o ProductMarker \o <<"p","2","/">>}

PriceSelectors(v) ==
  IF v = "stealth" THEN <<SelPriceDivWidget, SelPriceClass>>
  ELSE <<SelPriceSpanWidget, SelPriceDivWidget, SelPriceNumber>>

\* The price cascade of GetProduct; the stealth build also wants the currency
\* sign in the text.
RECURSIVE DetailPrice(_, _, _)
DetailPrice(v, dom, sels) ==
  IF sels = Empty THEN Empty
  ELSE LET text == dom[Head(sels)]
       IN IF text # None /\ text # Empty /\ (v = "stealth" => Contains(text, Currency))
          THEN TrimSpace(text)
          ELSE DetailPrice(v, dom, Tail(sels))

\* product := &Product{Link: url}
DetailInitNoLink(url) == NewProduct
DetailInit(url) == [NewProduct EXCEPT !.Link = url]

DetailProduct(v, dom, url) ==
  LET p0 == DetailInit(url)
      p1 == IF dom[SelTitle] # None THEN [p0 EXCEPT !.Name = TrimSpace(dom[SelTitle])] ELSE p0
      p2 == [p1 EXCEPT !.Price = DetailPrice(v, dom, PriceSelectors(v))]
      p3 == IF dom[SelGalleryImg] # None THEN [p2 EXCEPT !.Image = dom[SelGalleryImg]] ELSE p2
      rsel == IF v = "stealth" THEN SelReviewScore ELSE SelReviewRating
  IN IF dom[rsel] # None THEN [p3 EXCEPT !.Rating = TrimSpace(dom[rsel])] ELSE p3

\* ------------------------------------------------------------ block checks
\* The entry check of Search on the fetched HTML.
EntryBlockedAnyMarker(v, html) == html # {}
EntryBlocked(v, html) ==
  IF v = "stealth" THEN Restricted \in html \/ AntibotUpper \in html
  ELSE AntibotUpper \in html \/ AntibotLower \in html

\* The re-check of the stealth Search after the recovery cycle.
StillBlocked(html) == Restricted \in html

\* The check of GetProduct on the fetched HTML.
DetailBlocked(v, html) ==
  IF v = "stealth" THEN Restricted \in html ELSE AntibotUpper \in html

\* ------------------------------------------------------------------- state
VARIABLES
  variant,      \* which build runs: "main" or "stealth"
  debug,        \* OzonParser.debug
  browser,      \* OzonParser.browser: "open" or "closed" (never nil after NewOzonParser)
  closeCalls,   \* calls of browser.MustClose so far
  closeOutcome, \* how the last MustClose ended: "none", "ok" or "panic"
  op,           \* the running operation: "none", "Search", "GetProduct", "GetScreenshot"
  pc,           \* its position
  input,        \* the query (Search) or the url
  maxProducts,  \* Search's maxProducts
  pageState,    \* the operation's page: "none", "open", "closed"
  deferred,     \* whether defer page.MustClose() is registered
  panicAt,      \* the call that panicked, "" when none did
  simPasses,    \* runs of simulateHuman
  fetched,      \* the HTML of each page.MustHTML(), in order
  clicks,       \* clicks of #reload-button
  cooldowns,    \* the 10 s waits before a re-fetch
  snapshots,    \* writes of /tmp/ozon_debug.html
  elements,     \* what page.Elements returned, each element by its fixture name
  ret,          \* the returned value
  err           \* the returned error, "nil" when none

vars ==
  <<variant, debug, browser, closeCalls, closeOutcome, op, pc, input, maxProducts,
    pageState, deferred, panicAt, simPasses, fetched, clicks, cooldowns, snapshots,
    elements, ret, err>>

parserVars == <<variant, debug, browser, closeCalls, closeOutcome>>
runVars == <<simPasses, fetched, clicks, cooldowns, snapshots, elements, ret, err>>

Nil == [kind |-> "nil"]
ErrNil == "nil"
ErrRestricted == "access restricted by Ozon"
ErrCapture == "capture failed"
Queries == {<<"x">>}

SearchResult(query, count, products) ==
  [kind |-> "SearchResult", Query |-> query, Count |-> count, Products |-> products]

\* No operation runs.
IdleState ==
  /\ op = "none" /\ pc = "idle" /\ input = Empty /\ maxProducts = 0
  /\ pageState = "none" /\ deferred = FALSE /\ panicAt = ""
  /\ simPasses = 0 /\ fetched = Empty /\ clicks = 0 /\ cooldowns = 0 /\ snapshots = 0
  /\ elements = Empty /\ ret = Nil /\ err = ErrNil

\* NewOzonParser(debug): a connected browser.
Init ==
  /\ variant \in {"main", "stealth"}
  /\ debug \in BOOLEAN
  /\ browser = "open"
  /\ closeCalls = 0
  /\ closeOutcome = "none"
  /\ IdleState

\* ----------------------------------------------------------------- actions
\* The deferred page.MustClose() runs when the operation returns or panics.
AfterDefers == IF deferred /\ pageState = "open" THEN "closed" ELSE pageState

\* The Must* calls that can panic at each position.
PanicCalls ==
  IF pc = "create" THEN {"MustPage"}
  ELSE IF pc = "setup" THEN
    IF variant = "stealth"
    THEN {"MustSetViewport", "MustEvalOnNewDocument", "MustNavigate", "MustWaitLoad"}
    ELSE {"MustSetViewport", "MustWaitLoad"}
  ELSE IF pc = "simulate" THEN {"MustMoveTo", "MustScroll"}
  ELSE IF pc = "fetch" THEN {"MustHTML"}
  ELSE IF pc = "check" /\ op = "Search" /\ EntryBlocked(variant, fetched[1]) THEN
    IF variant = "stealth" THEN {"MustMoveTo", "MustClick", "MustHTML"} ELSE {"MustHTML"}
  ELSE IF pc = "check" /\ op = "GetProduct" /\ variant = "main"
          /\ DetailBlocked(variant, fetched[1]) THEN {"MustHTML"}
  ELSE IF pc = "extract" /\ variant = "stealth" THEN {"MustScroll"}
  ELSE {}

StartSearch ==
  /\ pc = "idle" /\ browser = "open"
  /\ \E q \in Queries, m \in (0 - 1)..MaxCount :
       /\ input' = q
       /\ maxProducts' = m
  /\ op' = "Search"
  /\ pc' = "create"
  /\ UNCHANGED <<parserVars, runVars, pageState, deferred, panicAt>>

StartGetProduct ==
  /\ pc = "idle" /\ browser = "open"
  /\ \E u \in Urls : input' = u
  /\ op' = "GetProduct"
  /\ pc' = "create"
  /\ UNCHANGED <<parserVars, runVars, maxProducts, pageState, deferred, panicAt>>

StartGetScreenshot ==
  /\ pc = "idle" /\ browser = "open"
  /\ \E u \in Urls : input' = u
  /\ op' = "GetScreenshot"
  /\ pc' = "create"
  /\ UNCHANGED <<parserVars, runVars, maxProducts, pageState, deferred, panicAt>>

\* The page is created: p.browser.MustPage(url) followed by the defer in the
\* plain build, stealth.MustPage(p.browser) inside createStealthPage in the
\* stealth build, where the caller's defer is not registered yet.
CreatePage ==
  /\ pc = "create"
  /\ pageState' = "open"
  /\ deferred' = (variant = "main")
  /\ pc' = "setup"
  /\ UNCHANGED <<parserVars, runVars, op, input, maxProducts, panicAt>>

\* Viewport, evasion script, navigation and load wait succeed; in the stealth
\* build createStealthPage returns and the caller registers the defer.
SetupPage ==
  /\ pc = "setup"
  /\ deferred' = TRUE
  /\ pc' = IF variant = "stealth" THEN "simulate"
           ELSE IF op = "GetScreenshot" THEN "capture" ELSE "fetch"
  /\ UNCHANGED <<parserVars, runVars, op, input, maxProducts, pageState, panicAt>>

\* p.simulateHuman(page) before the content is looked at (stealth build).
SimulateHuman ==
  /\ pc = "simulate"
  /\ simPasses' = simPasses + 1
  /\ pc' = IF op = "GetScreenshot" THEN "capture" ELSE "fetch"
  /\ UNCHANGED <<parserVars, op, input, maxProducts, pageState, deferred, panicAt,
                 fetched, clicks, cooldowns, snapshots, elements, ret, err>>

\* html := page.MustHTML()
FetchContent ==
  /\ pc = "fetch"
  /\ \E html \in Contents : fetched' = <<html>>
  /\ pc' = "check"
  /\ UNCHANGED <<parserVars, op, input, maxProducts, pageState, deferred, panicAt,
                 simPasses, clicks, cooldowns, snapshots, elements, ret, err>>

\* A Must* call panics; the deferred calls run.
Panic ==
  /\ \E call \in PanicCalls : panicAt' = call
  /\ pc' = "panicked"
  /\ pageState' = AfterDefers
  /\ UNCHANGED <<parserVars, runVars, op, input, maxProducts, deferred>>

\* Search: the entry check finds no marker.
SearchUnblocked ==
  /\ op = "Search" /\ pc = "check"
  /\ ~EntryBlocked(variant, fetched[1])
  /\ pc' = "extract"
  /\ UNCHANGED <<parserVars, runVars, op, input, maxProducts, pageState, deferred, panicAt>>

\* Search: the entry check finds a marker.  Stealth build: two more
\* simulation passes, the reload button clicked when it is there (and one
\* more pass), the cooldown, the re-fetch and the re-check.  Plain build: the
\* wait and the re-fetch, with no re-check.
SearchRecover ==
  /\ op = "Search" /\ pc = "check"
  /\ EntryBlocked(variant, fetched[1])
  /\ \E html \in Contents, button \in BOOLEAN :
       /\ fetched' = Append(fetched, html)
       /\ cooldowns' = cooldowns + 1
       /\ IF variant = "stealth"
          THEN /\ simPasses' = simPasses + 2 + (IF button THEN 1 ELSE 0)
               /\ clicks' = clicks + (IF button THEN 1 ELSE 0)
               /\ IF StillBlocked(html)
                  THEN /\ snapshots' = snapshots + (IF debug THEN 1 ELSE 0)
                       /\ ret' = SearchResult(input, 0, Empty)
                       /\ err' = ErrRestricted
                       /\ pc' = "done"
                       /\ pageState' = AfterDefers
                  ELSE /\ pc' = "extract"
                       /\ UNCHANGED <<snapshots, ret, err, pageState>>
          ELSE /\ pc' = "extract"
               /\ UNCHANGED <<simPasses, clicks, snapshots, ret, err, pageState>>
  /\ UNCHANGED <<parserVars, op, input, maxProducts, deferred, panicAt, elements>>

\* Search: scroll, select the elements, run the extraction loop, return.
SearchExtract ==
  /\ op = "Search" /\ pc = "extract"
  /\ \E page \in Pages :
       /\ elements' = page
       /\ IF Len(page) = 0
          THEN /\ snapshots' = snapshots + (IF debug THEN 1 ELSE 0)
               /\ ret' = SearchResult(input, 0, Empty)
          ELSE LET products == ExtractProducts(variant, page, maxProducts)
               IN /\ ret' = SearchResult(input, Len(products), products)
                  /\ UNCHANGED snapshots
  /\ err' = ErrNil
  /\ pc' = "done"
  /\ pageState' = AfterDefers
  /\ UNCHANGED <<parserVars, op, input, maxProducts, deferred, panicAt,
                 simPasses, fetched, clicks, cooldowns>>

\* GetProduct after the first fetch: the stealth build returns the error on a
\* restricted page; the plain build waits and re-fetches on an antibot page;
\* then the fields are read.
DetailExtract ==
  /\ op = "GetProduct" /\ pc = "check"
  /\ IF variant = "stealth" /\ DetailBlocked(variant, fetched[1])
     THEN /\ ret' = Nil
          /\ err' = ErrRestricted
          /\ UNCHANGED <<fetched, cooldowns>>
     ELSE /\ \E dom \in DetailDoms :
               ret' = [kind |-> "Product", product |-> DetailProduct(variant, dom, input)]
          /\ err' = ErrNil
          /\ IF variant = "main" /\ DetailBlocked(variant, fetched[1])
             THEN /\ \E html \in Contents : fetched' = Append(fetched, html)
                  /\ cooldowns' = cooldowns + 1
             ELSE UNCHANGED <<fetched, cooldowns>>
  /\ pc' = "done"
  /\ pageState' = AfterDefers
  /\ UNCHANGED <<parserVars, op, input, maxProducts, deferred, panicAt,
                 simPasses, clicks, snapshots, elements>>

\* GetScreenshot: page.Screenshot's bytes and error are returned as they are.
Capture ==
  /\ op = "GetScreenshot" /\ pc = "capture"
  /\ \E failed \in BOOLEAN :
       /\ ret' = IF failed THEN Nil ELSE [kind |-> "png"]
       /\ err' = IF failed THEN ErrCapture ELSE ErrNil
  /\ pc' = "done"
  /\ pageState' = AfterDefers
  /\ UNCHANGED <<parserVars, op, input, maxProducts, deferred, panicAt,
                 simPasses, fetched, clicks, cooldowns, snapshots, elements>>

\* The caller takes the result; the parser is ready for the next operation.
Return ==
  /\ pc = "done"
  /\ op' = "none" /\ pc' = "idle" /\ input' = Empty /\ maxProducts' = 0
  /\ pageState' = "none" /\ deferred' = FALSE /\ panicAt' = ""
  /\ simPasses' = 0 /\ fetched' = Empty /\ clicks' = 0 /\ cooldowns' = 0
  /\ snapshots' = 0 /\ elements' = Empty /\ ret' = Nil /\ err' = ErrNil
  /\ UNCHANGED parserVars

\* func (p *OzonParser) Close(): MustClose whenever the browser field is set;
\* the field is never cleared.  MustClose on a browser that is already closed
\* is the library's to decide: it returns or it panics.
Close ==
  /\ pc = "idle"
  /\ browser # "nil"
  /\ closeCalls < MaxCloseCalls
  /\ closeCalls' = closeCalls + 1
  /\ \E outcome \in (IF browser = "closed" THEN {"ok", "panic"} ELSE {"ok"}) :
       closeOutcome' = outcome
  /\ browser' = "closed"
  /\ UNCHANGED <<variant, debug, op, pc, input, maxProducts, pageState, deferred,
                 panicAt, runVars>>

Next ==
  \/ StartSearch
  \/ StartGetProduct
  \/ StartGetScreenshot
  \/ CreatePage
  \/ SetupPage
  \/ SimulateHuman
  \/ FetchContent
  \/ Panic
  \/ SearchUnblocked
  \/ SearchRecover
  \/ SearchExtract
  \/ DetailExtract
  \/ Capture
  \/ Return
  \/ Close

Spec == Init /\ [][Next]_vars

\* ------------------------------------------------------------------ claims
SearchDone == op = "Search" /\ pc = "done"
DetailDone == op = "GetProduct" /\ pc = "done"

\* The block markers of the entry check of each build, as the claims name them.
ConfiguredMarkers ==
  IF variant = "stealth" THEN {Restricted, AntibotUpper} ELSE {AntibotUpper, AntibotLower}

LastFetched == fetched[Len(fetched)]

\* C1: Search returns without the AccessRestricted failure only if the HTML
\* it fetched last holds none of the block markers of the entry check.
C1_BlockFailuresSurfaced ==
  (SearchDone /\ err # ErrRestricted) => LastFetched \cap ConfiguredMarkers = {}

\* C2: when every fetch of a Search holds a block marker, Search ends Failed
\* after exactly one recovery cycle and the diagnostic snapshot was written
\* exactly once, whatever the debug toggle.
C2_FailedAfterBudgetWithOneSnapshot ==
  (SearchDone /\ \A i \in 1..Len(fetched) : fetched[i] \cap ConfiguredMarkers # {})
    => (err = ErrRestricted /\ Len(fetched) = 2 /\ cooldowns = 1 /\ snapshots = 1)

\* C3: when the first fetch of a Search holds no block marker of the entry
\* check, extraction starts with no recovery: no simulation pass beyond the
\* one before the fetch, no reload click, no cooldown, no second fetch, and
\* the call does not fail.
C3_UnblockedWithoutRecovery ==
  (op = "Search" /\ pc \in {"extract", "done"} /\ fetched[1] \cap ConfiguredMarkers = {})
    => /\ Len(fetched) = 1
       /\ clicks = 0
       /\ cooldowns = 0
       /\ simPasses = (IF variant = "stealth" THEN 1 ELSE 0)
       /\ err = ErrNil

C3_Witness ==
  /\ op = "Search" /\ pc = "extract" /\ variant = "stealth"
  /\ fetched = <<{AntibotLower}>>
  /\ simPasses = 1 /\ cooldowns = 0

\* The canonical identity of a link as the claims define it: what follows the
\* product-path marker, up to the next "/" or "?".
CanonicalIdentity(link) ==
  LET start == Index(link, ProductMarker) + Len(ProductMarker)
      stops == {k \in start..Len(link) : link[k] \in {"/", "?"}}
      stop == IF stops = {} THEN Len(link) + 1
              ELSE CHOOSE k \in stops : \A j \in stops : k <= j
  IN SubSeq(link, start, stop - 1)

\* C4: one Search call never returns two Products with the same canonical
\* identity.
C4_NoDuplicateIdentity ==
  SearchDone =>
    \A i, j \in 1..Len(ret.Products) :
      i # j => CanonicalIdentity(ret.Products[i].Link) # CanonicalIdentity(ret.Products[j].Link)

\* C4, for the stealth build alone.
StealthNoDuplicateIdentity == variant = "stealth" => C4_NoDuplicateIdentity

\* C5 as stated: on every return of Search, count = len(products) and
\* len(products) <= maxCount, for every maxCount.
C5_CountWithinMaxCount ==
  SearchDone => (ret.Count = Len(ret.Products) /\ Len(ret.Products) <= maxProducts)

\* C5 amended: on every return of Search, count = len(products); and
\* len(products) <= maxCount when maxCount >= 0, len(products) = 0 when
\* maxCount < 0.
C5_CountWithinNonNegativeMaxCount ==
  SearchDone =>
    /\ ret.Count = Len(ret.Products)
    /\ (maxProducts >= 0 => Len(ret.Products) <= maxProducts)
    /\ (maxProducts < 0 => Len(ret.Products) = 0)

C5_Witness ==
  /\ SearchDone /\ err = ErrNil
  /\ maxProducts = 1 /\ Len(elements) = 3
  /\ ret.Count = 1 /\ Len(ret.Products) = 1

\* C6: no operation ends, by return or by panic, with the page it created
\* still open.
C6_PageClosedOnEveryExit ==
  (pc \in {"done", "panicked"} /\ pageState # "none") => pageState = "closed"

C8_CloseIdempotent == closeCalls <= 1 /\ closeOutcome # "panic"

\* The links of a sequence of Products.
RECURSIVE LinksOf(_)
LinksOf(products) ==
  IF products = Empty THEN Empty ELSE <<Head(products).Link>> \o LinksOf(Tail(products))

\* The links C9 expects: of the elements from i on, in order, those with a
\* product-path link whose identity is new, until the budget is used up.
RECURSIVE ExpectedLinks(_, _, _, _)
ExpectedLinks(elems, i, budget, ids) ==
  IF i > Len(elems) \/ budget <= 0 THEN Empty
  ELSE
    LET e == Elem[elems[i]]
        link == IF e.href = None THEN Empty ELSE ResolveLink(e.href)
    IN IF ~Contains(link, ProductMarker) \/ CanonicalIdentity(link) \in ids
       THEN ExpectedLinks(elems, i + 1, budget, ids)
       ELSE <<link>> \o
            ExpectedLinks(elems, i + 1, budget - 1, ids \cup {CanonicalIdentity(link)})

\* C9: the Products of a Search are the first maxCount matched elements, in
\* DOM order, that have a product-path link and an identity not seen before.
C9_FirstQualifyingInOrder ==
  (SearchDone /\ err = ErrNil) =>
    LinksOf(ret.Products) = ExpectedLinks(elements, 1, maxProducts, {})

\* C9, for the stealth build alone.
StealthFirstQualifyingInOrder == variant = "stealth" => C9_FirstQualifyingInOrder

\* The name and the price C10 expects of an element: from the trimmed lines
\* of its text, else from the selector cascade.
TrimmedLines(text) ==
  LET lines == Split(text, <<NL>>)
  IN [k \in 1..Len(lines) |-> TrimSpace(lines[k])]

FirstLine(lines, Ok(_)) ==
  LET hits == {k \in 1..Len(lines) : lines[k] # Empty /\ Ok(lines[k])}
  IN IF hits = {} THEN Empty ELSE lines[CHOOSE k \in hits : \A j \in hits : k <= j]

ExpectedName(e) ==
  LET IsName(line) == Len(line) > 10 /\ ~Contains(line, Currency)
      scanned == FirstLine(TrimmedLines(e.text), IsName)
  IN IF scanned # Empty THEN scanned ELSE Cascade(e.nameSel)

ExpectedPrice(e) ==
  LET IsPrice(line) == Contains(line, Currency)
      scanned == FirstLine(TrimmedLines(e.text), IsPrice)
  IN IF scanned # Empty THEN scanned ELSE Cascade(e.priceSel)

\* C10: the Product of a matched element has the name and the price of the
\* text scan (first line of more than 10 characters without the currency
\* sign; first line with it), else those of the fallback selector cascade.
C10_NameAndPriceFromTextThenCascade ==
  (SearchDone /\ err = ErrNil /\ Len(elements) = 1 /\ Len(ret.Products) = 1) =>
    /\ ret.Products[1].Name = ExpectedName(Elem[elements[1]])
    /\ ret.Products[1].Price = ExpectedPrice(Elem[elements[1]])

====
